---- MODULE Spec2Model ----
(***************************************************************************)
(* A model of script.js: the field normalizers, the marker dataset builder *)
(* (loadMarkerData), the visualization updater (updateVisualization), the  *)
(* JPEG-rank renderer (renderJpegRankChart), the page-load handler and the *)
(* copy button.                                                            *)
(*                                                                         *)
(* JavaScript strings are sequences of one-character strings, so that the  *)
(* normalizers are computed character by character as the code does.       *)
(***************************************************************************)
EXTENDS Integers, Sequences, FiniteSets, TLC

(***************************************************************************)
(* Bounds of the model.                                                    *)
(***************************************************************************)
\* characters appended to / prepended to a seed string of the normalizers
MaxExtra == 2
\* data rows of the marker CSV table
MaxRows == 3
\* data rows of the JPEG-rank CSV table
MaxJpegRows == 3
\* user events (button clicks, selector changes) after loadMarkerData
MaxCalls == 1

(***************************************************************************)
(* JavaScript values that are not strings or numbers.                      *)
(***************************************************************************)
undefined == [kind |-> "undefined"]
null == [kind |-> "null"]

(***************************************************************************)
(* Characters and strings.                                                 *)
(***************************************************************************)
UpperChars == <<"A","B","C","D","E","F","G","H","I","J","K","L","M",
                "N","O","P","Q","R","S","T","U","V","W","X","Y","Z">>
LowerChars == <<"a","b","c","d","e","f","g","h","i","j","k","l","m",
                "n","o","p","q","r","s","t","u","v","w","x","y","z">>
DigitChars == <<"0","1","2","3","4","5","6","7","8","9">>

Range(s) == {s[i] : i \in DOMAIN s}

\* String.prototype.toLowerCase, one character
LowerChar(c) ==
  IF \E i \in 1..26 : UpperChars[i] = c
    THEN LowerChars[CHOOSE i \in 1..26 : UpperChars[i] = c]
    ELSE c

\* String.prototype.toLowerCase
toLowerCase(s) == [i \in 1..Len(s) |-> LowerChar(s[i])]

\* whitespace as String.prototype.trim sees it (the ASCII part)
IsSpace(c) == c \in {" ", "\t", "\n", "\r"}

\* the regular expression class \w
IsWord(c) == c \in Range(UpperChars) \cup Range(LowerChars) \cup Range(DigitChars) \cup {"_"}

\* String.prototype.trim
RECURSIVE trimStart(_)
trimStart(s) == IF s # <<>> /\ IsSpace(Head(s)) THEN trimStart(Tail(s)) ELSE s

RECURSIVE trimEnd(_)
trimEnd(s) ==
  IF s # <<>> /\ IsSpace(s[Len(s)]) THEN trimEnd(SubSeq(s, 1, Len(s) - 1)) ELSE s

trim(s) == trimEnd(trimStart(s))

\* String.prototype.startsWith
startsWith(s, p) == Len(s) >= Len(p) /\ SubSeq(s, 1, Len(p)) = p

\* s.replace(/[C]+/g, r) when negated is FALSE and s.replace(/[^C]+/g, r)
\* when it is TRUE, for a set C of characters: every maximal run of
\* characters of the class becomes r. prevIn tells whether the character
\* before s was of the class.
RECURSIVE ReplaceRuns(_, _, _, _, _)
ReplaceRuns(s, C, negated, r, prevIn) ==
  IF s = <<>> THEN <<>>
  ELSE IF (Head(s) \in C) # negated
    THEN (IF prevIn THEN <<>> ELSE r) \o ReplaceRuns(Tail(s), C, negated, r, TRUE)
    ELSE <<Head(s)>> \o ReplaceRuns(Tail(s), C, negated, r, FALSE)

\* the characters of the regular expression class \s (its ASCII part)
SpaceChars == {" ", "\t", "\n", "\r"}

\* the characters of the regular expression class [\w.]
WordOrDotChars ==
  Range(UpperChars) \cup Range(LowerChars) \cup Range(DigitChars) \cup {"_", "."}

\* s.replace(/\s+/g, " ")
CollapseWhitespace(s) == ReplaceRuns(s, SpaceChars, FALSE, <<" ">>, FALSE)

\* s.replace(/[^\w.]+/g, "_")
Slugify(s) == ReplaceRuns(s, WordOrDotChars, TRUE, <<"_">>, FALSE)

(***************************************************************************)
(* The string literals of the program.                                     *)
(***************************************************************************)
S_DA2k == <<"D","A","2","k">>
S_da2k == <<"d","a","2","k">>
S_DA_2K == <<"D","A","-","2","K">>
S_SPair == <<"S","P","a","i","r">>
S_spair == <<"s","p","a","i","r">>
S_default == <<"d","e","f","a","u","l","t">>
S_color_blue == <<"c","o","l","o","r","_","b","l","u","e">>
S_color_blue_sp == <<"c","o","l","o","r"," ","b","l","u","e">>
S_marker_square == <<"m","a","r","k","e","r","_","s","q","u","a","r","e">>
S_marker_type_square == <<"m","a","r","k","e","r"," ","t","y","p","e"," ","s","q","u","a","r","e">>
S_marker_type_colon_square ==
  <<"m","a","r","k","e","r"," ","t","y","p","e",":"," ","s","q","u","a","r","e">>
S_radius_3 == <<"r","a","d","i","u","s","_","3">>
S_radius_3_sp == <<"r","a","d","i","u","s"," ","3">>
S_text_offset_below ==
  <<"t","e","x","t","_","o","f","f","s","e","t","_","b","e","l","o","w">>
S_text_offset_below_sp ==
  <<"t","e","x","t"," ","o","f","f","s","e","t"," ","b","e","l","o","w">>
S_font_scale == <<"f","o","n","t","_","s","c","a","l","e","_","0",".","2">>
S_font_scale_sp == <<"f","o","n","t"," ","s","c","a","l","e"," ","0",".","2">>
S_models == <<"m","o","d","e","l","s">>
S_empty == <<>>

(***************************************************************************)
(* Field normalizers.                                                      *)
(***************************************************************************)
\* a faulty variant, to show the property can fail: the "DA-2K" prefix is normalised by dropping its dash
normalizeDatasetKey_DropDash(datasetValue) ==
  LET v == trim(datasetValue) IN
  IF v = <<>> THEN v
  ELSE IF v = S_DA2k \/ toLowerCase(v) = S_da2k THEN S_DA2k
  ELSE IF startsWith(v, S_DA_2K) THEN <<"D","A","2","K">> \o SubSeq(v, 6, Len(v))
  ELSE IF v = S_SPair \/ toLowerCase(v) = S_spair THEN S_SPair
  ELSE IF startsWith(v, S_SPair) THEN S_SPair
  ELSE v

normalizeDatasetKey(datasetValue) ==
  LET v == trim(datasetValue) IN
  IF v = <<>> THEN v
  ELSE IF v = S_DA2k \/ toLowerCase(v) = S_da2k THEN S_DA2k
  ELSE IF startsWith(v, S_DA_2K) THEN S_DA2k
  ELSE IF v = S_SPair \/ toLowerCase(v) = S_spair THEN S_SPair
  ELSE IF startsWith(v, S_SPair) THEN S_SPair
  ELSE v

\* a faulty variant, to show the property can fail: the unmatched input is returned without being slugified
normalizeMarkerStyleKey_NoSlug(markerStyleValue) ==
  LET raw == trim(markerStyleValue)
      v == CollapseWhitespace(toLowerCase(raw))
  IN
  IF raw = <<>> THEN raw
  ELSE IF v = S_default THEN S_default
  ELSE IF v = S_color_blue_sp \/ v = S_color_blue THEN S_color_blue
  ELSE IF v = S_marker_type_square \/ v = S_marker_square \/ v = S_marker_type_colon_square
    THEN S_marker_square
  ELSE IF v = S_radius_3_sp \/ v = S_radius_3 THEN S_radius_3
  ELSE IF v = S_text_offset_below_sp \/ v = S_text_offset_below THEN S_text_offset_below
  ELSE IF v = S_font_scale_sp \/ v = S_font_scale THEN S_font_scale
  ELSE v

normalizeMarkerStyleKey(markerStyleValue) ==
  LET raw == trim(markerStyleValue)
      v == CollapseWhitespace(toLowerCase(raw))
  IN
  IF raw = <<>> THEN raw
  ELSE IF v = S_default THEN S_default
  ELSE IF v = S_color_blue_sp \/ v = S_color_blue THEN S_color_blue
  ELSE IF v = S_marker_type_square \/ v = S_marker_square \/ v = S_marker_type_colon_square
    THEN S_marker_square
  ELSE IF v = S_radius_3_sp \/ v = S_radius_3 THEN S_radius_3
  ELSE IF v = S_text_offset_below_sp \/ v = S_text_offset_below THEN S_text_offset_below
  ELSE IF v = S_font_scale_sp \/ v = S_font_scale THEN S_font_scale
  ELSE Slugify(v)

(***************************************************************************)
(* Numbers: parseInt / parseFloat give a finite number or NaN.             *)
(***************************************************************************)
Num(v) == [fin |-> TRUE, val |-> v]
NaN == [fin |-> FALSE, val |-> 0]

IsDigit(c) == c \in Range(DigitChars)
DigitVal(c) == (CHOOSE i \in 1..10 : DigitChars[i] = c) - 1

\* the value of the longest prefix of digits of s, read after the digits acc
RECURSIVE DigitsPrefix(_, _)
DigitsPrefix(s, acc) ==
  IF s # <<>> /\ IsDigit(Head(s))
    THEN DigitsPrefix(Tail(s), 10 * acc + DigitVal(Head(s)))
    ELSE acc

\* parseInt(s, 10): leading whitespace, an optional sign, then digits; NaN
\* when no digit follows.
parseInt(s) ==
  LET t == trimStart(s)
      neg == t # <<>> /\ Head(t) = "-"
      u == IF t # <<>> /\ Head(t) \in {"-", "+"} THEN Tail(t) ELSE t
  IN IF u # <<>> /\ IsDigit(Head(u))
       THEN Num(IF neg THEN 0 - DigitsPrefix(u, 0) ELSE DigitsPrefix(u, 0))
       ELSE NaN

\* parseFloat(s) on the cells of the model, which hold no ".", "e" or
\* "Infinity": the same prefix of digits as parseInt reads.
parseFloat(s) == parseInt(s)

\* Number.isFinite
isFinite(n) == n.fin

(***************************************************************************)
(* Insertion-ordered Map and Set of JavaScript, and plain objects.         *)
(***************************************************************************)
EmptyMap == [keys |-> <<>>, vals |-> <<>>]

MapHas(m, k) == k \in Range(m.keys)
MapGet(m, k) == m.vals[k]

\* a faulty variant, to show the property can fail: setting a key that is present moves it to the end
MapSet_MoveToEnd(m, k, v) ==
  [keys |-> Append(SelectSeq(m.keys, LAMBDA x : x # k), k),
   vals |-> [x \in Range(m.keys) \cup {k} |-> IF x = k THEN v ELSE m.vals[x]]]

\* Map.prototype.set: a new key goes last, a present key keeps its place
MapSet(m, k, v) ==
  [keys |-> IF MapHas(m, k) THEN m.keys ELSE Append(m.keys, k),
   vals |-> [x \in Range(m.keys) \cup {k} |-> IF x = k THEN v ELSE m.vals[x]]]

\* [...new Set(s)]: the distinct elements of s in order of first appearance
RECURSIVE Distinct(_)
Distinct(s) ==
  IF s = <<>> THEN <<>>
  ELSE LET d == Distinct(SubSeq(s, 1, Len(s) - 1))
           x == s[Len(s)]
       IN IF x \in Range(d) THEN d ELSE Append(d, x)

\* obj[k] = v
ObjSet(o, k, v) == [x \in DOMAIN o \cup {k} |-> IF x = k THEN v ELSE o[x]]

S_constructor == <<"c","o","n","s","t","r","u","c","t","o","r">>
S_toString == <<"t","o","S","t","r","i","n","g">>

\* properties every plain object inherits from Object.prototype
ObjectPrototypeKeys == {S_constructor, S_toString}

\* obj[k]: an own property, else an inherited one, else undefined
ObjGet(o, k) ==
  IF k \in DOMAIN o THEN o[k]
  ELSE IF k \in ObjectPrototypeKeys THEN [kind |-> "function"]
  ELSE undefined

(***************************************************************************)
(* CSV table: the result of parseSimpleCsv. Header names are whole strings *)
(* (the code only compares them whole); cells are character sequences.     *)
(***************************************************************************)
\* buildCsvHeaderIndex: header -> index of its last occurrence (0-based in
\* the code, 1-based here); empty headers are skipped
buildCsvHeaderIndex(headers) ==
  [h \in Range(headers) \ {""} |->
     CHOOSE i \in DOMAIN headers :
       headers[i] = h /\ \A j \in DOMAIN headers : headers[j] = h => j <= i]

RequiredColumns == <<"dataset", "model", "marker_style", "accuracy", "rank">>

\* the row objects of loadMarkerData before they are filtered
MarkerRow(values, idx) ==
  [dataset |-> normalizeDatasetKey(values[idx["dataset"]]),
   marker_style |-> normalizeMarkerStyleKey(values[idx["marker_style"]]),
   model |-> trim(values[idx["model"]]),
   accuracy |-> parseFloat(values[idx["accuracy"]]),
   rank |-> parseInt(values[idx["rank"]])]

\* the filter of loadMarkerData on the row objects
MarkerRowAccepted(row) ==
  /\ row.dataset # <<>>
  /\ row.marker_style # <<>>
  /\ row.model # <<>>
  /\ isFinite(row.accuracy)
  /\ isFinite(row.rank)

\* parsedRows of loadMarkerData
ParsedRows(csv) ==
  LET idx == buildCsvHeaderIndex(csv.headers)
      longEnough == SelectSeq(csv.rows, LAMBDA values : Len(values) >= Len(csv.headers))
      mapped == [i \in 1..Len(longEnough) |-> MarkerRow(longEnough[i], idx)]
  IN SelectSeq(mapped, MarkerRowAccepted)

\* byStyleByModel of loadMarkerData: every style of the dataset gets an empty
\* Map, then every row sets its model in the Map of its style
RECURSIVE FillByStyle(_, _)
FillByStyle(byStyle, rows) ==
  IF rows = <<>> THEN byStyle
  ELSE LET row == Head(rows)
           have == IF MapHas(byStyle, row.marker_style) THEN byStyle
                   ELSE MapSet(byStyle, row.marker_style, EmptyMap)
           inner == MapSet(MapGet(have, row.marker_style), row.model,
                           [accuracy |-> row.accuracy.val, rank |-> row.rank.val])
       IN FillByStyle(MapSet(have, row.marker_style, inner), Tail(rows))

RECURSIVE EmptyMaps(_)
EmptyMaps(styles) ==
  IF styles = <<>> THEN EmptyMap
  ELSE MapSet(EmptyMaps(SubSeq(styles, 1, Len(styles) - 1)), styles[Len(styles)], EmptyMap)

ByStyleByModel(datasetRows) ==
  LET markerStyles == Distinct([i \in 1..Len(datasetRows) |-> datasetRows[i].marker_style])
  IN FillByStyle(EmptyMaps(markerStyles), datasetRows)

\* defaultModels of loadMarkerData
DefaultModels(datasetRows, byStyle) ==
  IF MapHas(byStyle, S_default)
    THEN MapGet(byStyle, S_default).keys
    ELSE Distinct([i \in 1..Len(datasetRows) |-> datasetRows[i].model])

\* models of loadMarkerData: the default models present under every style
FilterModels(defaultModels, byStyle) ==
  SelectSeq(defaultModels,
            LAMBDA m : \A style \in Range(byStyle.keys) : MapHas(MapGet(byStyle, style), m))

\* the style entry { accuracies, ranks } aligned to models
StyleEntry(models, modelMap) ==
  [kind |-> "style",
   accuracies |-> [i \in 1..Len(models) |-> MapGet(modelMap, models[i]).accuracy],
   ranks |-> [i \in 1..Len(models) |-> MapGet(modelMap, models[i]).rank]]

\* data[dataset][style] = {...} for every style, in the Map's order
RECURSIVE SetStyles(_, _, _, _)
SetStyles(obj, styles, byStyle, models) ==
  IF styles = <<>> THEN obj
  ELSE SetStyles(ObjSet(obj, Head(styles), StyleEntry(models, MapGet(byStyle, Head(styles)))),
                 Tail(styles), byStyle, models)

\* data[dataset] of loadMarkerData
BuildDataset(datasetRows) ==
  LET byStyle == ByStyleByModel(datasetRows)
      models == FilterModels(DefaultModels(datasetRows, byStyle), byStyle)
      obj0 == ObjSet(<<>>, S_models, [kind |-> "array", items |-> models])
  IN [kind |-> "object", props |-> SetStyles(obj0, byStyle.keys, byStyle, models)]

\* data of loadMarkerData
BuildData(parsedRows) ==
  LET datasets == Distinct([i \in 1..Len(parsedRows) |-> parsedRows[i].dataset])
  IN [d \in Range(datasets) |->
        BuildDataset(SelectSeq(parsedRows, LAMBDA row : row.dataset = d))]

\* what loadMarkerData returns for a fetch outcome and the CSV table it reads:
\* null on a rejected fetch, a non-OK status or a missing column (the catch
\* block), else the data, which is also stored in MARKER_DATA
loadMarkerDataResult(fetchOutcome, csv) ==
  IF fetchOutcome # "ok" THEN null
  ELSE IF \E i \in DOMAIN RequiredColumns :
            RequiredColumns[i] \notin DOMAIN buildCsvHeaderIndex(csv.headers)
    THEN null
  ELSE [kind |-> "object", props |-> BuildData(ParsedRows(csv))]

(***************************************************************************)
(* updateVisualization.                                                    *)
(***************************************************************************)
\* every value but undefined and null is truthy among the values held here
Truthy(v) == v.kind \notin {"undefined", "null"}

\* v.accuracies: the array of a style entry, undefined on an array or a
\* function (reading it off undefined throws, which the caller decides)
AccuraciesOf(v) ==
  IF v.kind = "style" THEN [kind |-> "array", items |-> v.accuracies] ELSE undefined

\* a faulty variant, to show the property can fail: the baseline minus the selected accuracy
AccuracyDelta_Flipped(selectedData, defaultData, i) ==
  defaultData.accuracies[i] - selectedData.accuracies[i]

\* delta of updateVisualization's deltas
AccuracyDelta(selectedData, defaultData, i) ==
  selectedData.accuracies[i] - defaultData.accuracies[i]

\* deltaColors of updateVisualization
DeltaColor(d) == IF d > 0 THEN "#10b981" ELSE IF d < 0 THEN "#ef4444" ELSE "#6b7280"

\* markerKey.replace(/_/g, " ")
UnderscoresToSpaces(s) == [i \in 1..Len(s) |-> IF s[i] = "_" THEN " " ELSE s[i]]

Abs(n) == IF n < 0 THEN 0 - n ELSE n

\* one row of the leaderboard table
TableRow(model, selectedData, defaultData, i) ==
  LET delta == defaultData.ranks[i] - selectedData.ranks[i] IN
  [model |-> model,
   rank |-> selectedData.ranks[i],
   delta |-> delta,
   class |-> IF delta > 0 THEN "deltaUp" ELSE IF delta < 0 THEN "deltaDown" ELSE "deltaZero",
   arrow |-> IF delta > 0 THEN "up" ELSE IF delta < 0 THEN "down" ELSE "dash",
   abs |-> Abs(delta),
   score |-> selectedData.accuracies[i]]

NoChart == [kind |-> "none"]

\* updateVisualization(markerKey) in the state (markerData, dataset), with the
\* chart and the table body as they are before the call; hasTbody tells whether
\* the table body element exists. The result is how the call ended
\* ("notLoaded": the early return; "threw": a TypeError left the function;
\* "rendered": it returned after Plotly.newPlot) and the chart and the table
\* after it.
updateVisualization(markerData, dataset, markerKey, hasTbody, chart, table) ==
  LET unchanged(how) == [outcome |-> how, chart |-> chart, table |-> table]
      datasetData == IF markerData.kind = "object"
                       THEN ObjGet(markerData.props, dataset) ELSE undefined
      isObject == datasetData.kind = "object"
      defaultData == IF isObject THEN ObjGet(datasetData.props, S_default) ELSE undefined
      keyed == IF isObject THEN ObjGet(datasetData.props, markerKey) ELSE undefined
      selectedData == IF Truthy(keyed) THEN keyed ELSE defaultData
      models == IF isObject THEN ObjGet(datasetData.props, S_models) ELSE undefined
  IN
  IF ~Truthy(markerData) \/ ~Truthy(datasetData) THEN unchanged("notLoaded")
  \* models.map: models is undefined or not an array
  ELSE IF models.kind # "array" THEN unchanged("threw")
  \* the map callback reads selectedData.accuracies[i] and defaultData.accuracies[i]
  ELSE IF Len(models.items) > 0 /\ (selectedData.kind # "style" \/ defaultData.kind # "style")
    THEN unchanged("threw")
  \* trace1 reads defaultData.accuracies, trace2 selectedData.accuracies
  ELSE IF defaultData.kind = "undefined" \/ selectedData.kind = "undefined"
    THEN unchanged("threw")
  ELSE
    LET n == Len(models.items)
        deltas == [i \in 1..n |-> AccuracyDelta(selectedData, defaultData, i)]
        newChart ==
          [kind |-> "chart",
           x |-> models.items,
           yDefault |-> AccuraciesOf(defaultData),
           ySelected |-> AccuraciesOf(selectedData),
           name |-> IF markerKey = S_default THEN <<"D","e","f","a","u","l","t">>
                    ELSE UnderscoresToSpaces(markerKey),
           deltas |-> deltas,
           textPlus |-> [i \in 1..n |-> deltas[i] >= 0],
           colors |-> [i \in 1..n |-> DeltaColor(deltas[i])],
           yRange |-> IF dataset = S_DA2k THEN <<45, 100>> ELSE <<20, 100>>]
    IN [outcome |-> "rendered",
        chart |-> newChart,
        table |-> IF hasTbody
                    THEN [i \in 1..n |-> TableRow(models.items[i], selectedData, defaultData, i)]
                    ELSE table]

(***************************************************************************)
(* loadJpegRankData and renderJpegRankChart.                               *)
(***************************************************************************)
S_BLINK_RD == <<"B","L","I","N","K","_","R","D">>
S_MME == <<"M","M","E">>

\* the keys of BENCHMARKS, in its order
BENCHMARKS == <<S_BLINK_RD, S_MME>>

\* the rank a model without a "default" entry is sorted by
MissingDefaultRank == 9999

\* qualitySortKey of "default"
DefaultQualityKey == 1000

\* what loadJpegRankData's promise settles to for a fetch outcome and the rows
\* parseSimpleCsv reads: a rejection when fetch rejects (nothing catches it),
\* null on a non-OK status, else the rows of at least four cells
loadJpegRankDataResult(fetchOutcome, csvRows) ==
  IF fetchOutcome = "rejected" THEN [kind |-> "rejected"]
  ELSE IF fetchOutcome # "ok" THEN null
  ELSE LET long == SelectSeq(csvRows, LAMBDA values : Len(values) >= 4) IN
       [kind |-> "array",
        items |-> [i \in 1..Len(long) |->
                     [benchmark |-> long[i][1],
                      model |-> long[i][2],
                      jpeg_quality |-> long[i][3],
                      rank |-> parseInt(long[i][4])]]]

\* q.match(/\d+/): the first run of digits of q, or <<>> when q has none
RECURSIVE FirstDigitRun(_)
FirstDigitRun(q) ==
  IF q = <<>> THEN <<>>
  ELSE IF IsDigit(Head(q)) THEN <<Head(q)>> \o
         (IF Len(q) > 1 /\ IsDigit(q[2]) THEN FirstDigitRun(Tail(q)) ELSE <<>>)
  ELSE FirstDigitRun(Tail(q))

\* qualitySortKey of renderJpegRankChart
qualitySortKey(q) ==
  IF q = S_default THEN DefaultQualityKey
  ELSE IF FirstDigitRun(q) # <<>> THEN DigitsPrefix(FirstDigitRun(q), 0)
  ELSE 0

\* Array.prototype.sort by a numeric key: x goes after the elements whose key
\* is not greater (the sort is stable)
RECURSIVE InsertByKey(_, _)
InsertByKey(sorted, x) ==
  IF sorted = <<>> THEN <<x>>
  ELSE IF Head(sorted).key <= x.key THEN <<Head(sorted)>> \o InsertByKey(Tail(sorted), x)
  ELSE <<x>> \o sorted

RECURSIVE SortByKey(_)
SortByKey(pairs) ==
  IF pairs = <<>> THEN <<>>
  ELSE InsertByKey(SortByKey(SubSeq(pairs, 1, Len(pairs) - 1)), pairs[Len(pairs)])

\* byModel of renderJpegRankChart: model -> its rows, in the order the models
\* first appear
RECURSIVE GroupByModel(_)
GroupByModel(data) ==
  IF data = <<>> THEN EmptyMap
  ELSE LET m == GroupByModel(SubSeq(data, 1, Len(data) - 1))
           r == data[Len(data)]
       IN MapSet(m, r.model, IF MapHas(m, r.model) THEN Append(MapGet(m, r.model), r)
                             ELSE <<r>>)

\* rows.find((x) => x.jpeg_quality === "default"): the first such row's place,
\* 0 when there is none
FindDefault(rows) ==
  IF \E i \in DOMAIN rows : rows[i].jpeg_quality = S_default
    THEN CHOOSE i \in DOMAIN rows :
           /\ rows[i].jpeg_quality = S_default
           /\ \A j \in DOMAIN rows : rows[j].jpeg_quality = S_default => i <= j
    ELSE 0

\* aDefault / bDefault of the comparator: find(...)?.rank ?? 9999, which is NaN
\* when the default entry's rank is NaN
DefaultSortKey(rows) ==
  IF FindDefault(rows) = 0 THEN Num(MissingDefaultRank) ELSE rows[FindDefault(rows)].rank

\* the sign of the comparator's result as sort reads it: NaN counts as 0
CompareSign(a, b) ==
  IF ~a.fin \/ ~b.fin THEN 0
  ELSE IF a.val < b.val THEN -1 ELSE IF a.val > b.val THEN 1 ELSE 0

\* whether the comparator is a consistent comparator on the keys, as
\* Array.prototype.sort requires for a defined order
ConsistentComparator(keys) ==
  \A a, b, c \in keys :
    /\ (CompareSign(a, b) = 0 /\ CompareSign(b, c) = 0) => CompareSign(a, c) = 0
    /\ (CompareSign(a, b) < 0 /\ CompareSign(b, c) < 0) => CompareSign(a, c) < 0
    /\ (CompareSign(a, b) = 0 /\ CompareSign(b, c) < 0) => CompareSign(a, c) < 0
    /\ (CompareSign(a, b) < 0 /\ CompareSign(b, c) = 0) => CompareSign(a, c) < 0

OrdersOf(s) ==
  {p \in [DOMAIN s -> Range(s)] : \A x \in Range(s) : \E i \in DOMAIN s : p[i] = x}

\* the orders [...byModel.keys()].sort(comparator) may give: the stable sort by
\* default rank when the comparator is consistent, and any order otherwise (the
\* order is then implementation-defined)
ModelsSortedChoices(byModel) ==
  LET keyOf == [m \in Range(byModel.keys) |-> DefaultSortKey(MapGet(byModel, m))]
      keys == {keyOf[m] : m \in Range(byModel.keys)}
      pairs == [i \in DOMAIN byModel.keys |->
                  [key |-> keyOf[byModel.keys[i]].val, val |-> byModel.keys[i]]]
      sorted == SortByKey(pairs)
  IN IF ~ConsistentComparator(keys) THEN OrdersOf(byModel.keys)
     ELSE IF \E k \in keys : ~k.fin THEN {byModel.keys}
     ELSE {[i \in DOMAIN sorted |-> sorted[i].val]}

Reverse(s) == [i \in DOMAIN s |-> s[Len(s) + 1 - i]]

\* Math.min / Math.max of a non-empty array of numbers
MinOf(ns) == CHOOSE x \in Range(ns) : \A y \in Range(ns) : x <= y
MaxOf(ns) == CHOOSE x \in Range(ns) : \A y \in Range(ns) : y <= x

\* the points of one model: its rows sorted by qualitySortKey
PointsOf(rows) ==
  LET sorted == SortByKey([i \in DOMAIN rows |->
                             [key |-> qualitySortKey(rows[i].jpeg_quality), val |-> rows[i]]])
  IN [i \in DOMAIN sorted |-> sorted[i].val]

\* a faulty variant, to show the property can fail: the segment ends at the default rank instead of the maximum
SegmentOf_ToDefault(model, points) ==
  LET finite == SelectSeq(points, LAMBDA p : isFinite(p.rank))
      ranks == [i \in DOMAIN finite |-> finite[i].rank.val]
      d == FindDefault(points)
  IN [model |-> model,
      minRank |-> MinOf(ranks),
      maxRank |-> IF d # 0 /\ isFinite(points[d].rank) THEN points[d].rank.val ELSE MaxOf(ranks),
      details |-> [i \in DOMAIN points |->
                     [jpeg_quality |-> points[i].jpeg_quality, rank |-> points[i].rank]]]

\* minRank, maxRank and details of one model with a finite rank
SegmentOf(model, points) ==
  LET finite == SelectSeq(points, LAMBDA p : isFinite(p.rank))
      ranks == [i \in DOMAIN finite |-> finite[i].rank.val]
  IN [model |-> model,
      minRank |-> MinOf(ranks),
      maxRank |-> MaxOf(ranks),
      details |-> [i \in DOMAIN points |->
                     [jpeg_quality |-> points[i].jpeg_quality, rank |-> points[i].rank]]]

\* the two traces of one benchmark for its models in sorted order: the segment
\* trace (x: min, max, null per model) and the marker trace (x: the default
\* rank of the models whose default rank is finite)
RECURSIVE BenchTraces(_, _, _)
BenchTraces(modelsSorted, byModel, acc) ==
  IF modelsSorted = <<>> THEN acc
  ELSE
    LET model == Head(modelsSorted)
        points == PointsOf(MapGet(byModel, model))
        d == FindDefault(points)
        hasFinite == \E i \in DOMAIN points : isFinite(points[i].rank)
        seg == SegmentOf(model, points)
        withSegment ==
          [acc EXCEPT !.segmentX = @ \o <<Num(seg.minRank), Num(seg.maxRank), null>>,
                      !.segmentY = @ \o <<model, model, null>>,
                      !.segmentHover = @ \o <<seg, seg, null>>]
        withDot ==
          IF d # 0 /\ isFinite(points[d].rank)
            THEN [withSegment EXCEPT !.dotX = Append(@, points[d].rank.val),
                                     !.dotY = Append(@, model),
                                     !.dotHover = Append(@, seg.details)]
            ELSE withSegment
    IN BenchTraces(Tail(modelsSorted), byModel, IF hasFinite THEN withDot ELSE acc)

EmptyTraces(axis) ==
  [xaxis |-> axis, segmentX |-> <<>>, segmentY |-> <<>>, segmentHover |-> <<>>,
   dotX |-> <<>>, dotY |-> <<>>, dotHover |-> <<>>]

\* the rows of one benchmark
BenchData(rows, key) == SelectSeq(rows, LAMBDA r : r.benchmark = key)

\* what renderJpegRankChart(rows) hands to Plotly.newPlot, for a choice of the
\* sorted order of the models of each benchmark (order[b] for BENCHMARKS[b]):
\* the traces of the benchmarks that have rows, and the category array of the
\* y axis
renderJpegRankChart(rows, order) ==
  LET traceOf(b) ==
        BenchTraces(order[b], GroupByModel(BenchData(rows, BENCHMARKS[b])),
                    EmptyTraces(IF b = 1 THEN "x" ELSE "x2"))
      has(b) == BenchData(rows, BENCHMARKS[b]) # <<>>
  IN [kind |-> "chart",
      traces |-> (IF has(1) THEN <<traceOf(1)>> ELSE <<>>)
                   \o (IF has(2) THEN <<traceOf(2)>> ELSE <<>>),
      categoryarray |-> IF has(1) /\ order[1] # <<>> THEN Reverse(order[1]) ELSE <<>>]

\* the choices of the sorted orders for the rows
JpegOrderChoices(rows) ==
  [b \in DOMAIN BENCHMARKS |-> ModelsSortedChoices(GroupByModel(BenchData(rows, BENCHMARKS[b])))]

(***************************************************************************)
(* State.                                                                  *)
(***************************************************************************)
VARIABLES
  nIn,      \* normalizers: the input string
  nExtra,   \* normalizers: characters added to the seed so far
  nDone,    \* normalizers: whether the normalizers have been called on nIn
  nDataset, \* normalizers: normalizeDatasetKey(nIn) once called
  nStyle    \* normalizers: normalizeMarkerStyleKey(nIn) once called

normVars == <<nIn, nExtra, nDone, nDataset, nStyle>>

VARIABLES
  MARKER_DATA,    \* the global MARKER_DATA: null, or the loaded data
  currentDataset, \* the global currentDataset
  accuracyChart,  \* what Plotly.newPlot last drew in "accuracyChart"
  tableBody,      \* the rows of the table body "interactiveLbBody"
  hasTbody,       \* whether the page has the table body element
  uvOutcome,      \* how the last call of updateVisualization ended
  uvKey,          \* the markerKey of the last call of updateVisualization
  activeMarker,   \* <<key>> of the button with class markerBtn--active, or <<>>
  mCsv,           \* the table parseSimpleCsv reads from marker_acc.csv
  mFetch,         \* how the fetch of marker_acc.csv ends
  mLoaded,        \* whether loadMarkerData has run
  mCalls          \* calls of updateVisualization so far

markerVars == <<MARKER_DATA, currentDataset, accuracyChart, tableBody, hasTbody,
                uvOutcome, uvKey, activeMarker, mCsv, mFetch, mLoaded, mCalls>>

VARIABLES
  jCsv,        \* the rows parseSimpleCsv reads from jpeg_rank.csv
  jFetch,      \* how the fetch of jpeg_rank.csv ends
  jRows,       \* what loadJpegRankData's promise settled to, or "pending"
  jpegChart    \* what Plotly.newPlot last drew in "jpegRankChart"

jpegVars == <<jCsv, jFetch, jRows, jpegChart>>

VARIABLES
  cLabel,      \* the copy button's textContent
  cTimers,     \* the pending restore timers, oldest first: the label each restores
  cPending,    \* clipboard writes whose promise has not settled
  cClicks,     \* clicks on the copy button so far
  cTarget,     \* whether the element the button's data-copy-target names exists
  cClipboard   \* whether navigator.clipboard.writeText exists

copyVars == <<cLabel, cTimers, cPending, cClicks, cTarget, cClipboard>>

VARIABLES
  pagePc,             \* where the DOMContentLoaded handler is
  mNet,               \* the fetch of marker_acc.csv: "idle", "pending", "settled"
  jNet,               \* the fetch of jpeg_rank.csv: "idle", "pending", "settled"
  handlersRegistered, \* whether the marker buttons' and the selector's listeners are added
  hasButtons,         \* whether the page has .markerBtn elements
  hasSelect,          \* whether the page has the element "datasetSelect"
  hasJpegContainer    \* whether the page has the element "jpegRankChart"

pageVars == <<pagePc, mNet, jNet, handlersRegistered, hasButtons, hasSelect,
              hasJpegContainer>>

vars == <<normVars, markerVars, jpegVars, copyVars, pageVars>>

\* the label the copy button has in the page
InitialLabel == <<"C","o","p","y">>

\* the copy button before any click
CopyIdle ==
  /\ cLabel = InitialLabel
  /\ cTimers = <<>>
  /\ cPending = 0
  /\ cClicks = 0

\* the page before DOMContentLoaded
PageIdle ==
  /\ pagePc = "start"
  /\ mNet = "idle"
  /\ jNet = "idle"
  /\ handlersRegistered = FALSE

\* the JPEG-rank state before the page has done anything
JpegIdle ==
  /\ jRows = [kind |-> "pending"]
  /\ jpegChart = NoChart

\* the marker state before the page has done anything
MarkerIdle ==
  /\ MARKER_DATA = null
  /\ currentDataset = S_DA2k
  /\ accuracyChart = NoChart
  /\ tableBody = <<>>
  /\ uvOutcome = "none"
  /\ uvKey = <<>>
  /\ activeMarker = <<>>
  /\ mLoaded = FALSE
  /\ mCalls = 0

\* the normalizer state when the normalizers are not exercised
NormIdle ==
  /\ nIn = <<>>
  /\ nExtra = 0
  /\ nDone = FALSE
  /\ nDataset = <<>>
  /\ nStyle = <<>>

(***************************************************************************)
(* The normalizers applied to bounded inputs.                              *)
(***************************************************************************)
S_Color_Blue == <<"C","o","l","o","r"," ","B","l","u","e">>
S_unknown_style_bang ==
  <<"u","n","k","n","o","w","n"," ","s","t","y","l","e","!","!">>
S_unknown_style == <<"u","n","k","n","o","w","n","_","s","t","y","l","e">>
S_unknown_style_us == <<"u","n","k","n","o","w","n","_","s","t","y","l","e","_">>

NormSeeds ==
  { S_empty, S_DA2k, <<"d","A","2","K">>, S_DA_2K, S_SPair, <<"s","p","A","I","R">>,
    S_default, S_Color_Blue, S_unknown_style_bang,
    <<"M","a","r","k","e","r"," ","T","y","p","e",":"," ","S","q","u","a","r","e">>,
    <<"F","o","n","t"," "," ","S","c","a","l","e","\t","0",".","2">>,
    <<"R","a","d","i","u","s"," ","3">>,
    <<"t","e","x","t"," ","o","f","f","s","e","t"," ","b","e","l","o","w">> }

NormAlphabet == {" ", "\t", "!", "x", "K", ".", "-"}

NormInit ==
  /\ CopyIdle /\ cTarget = TRUE /\ cClipboard = TRUE
  /\ PageIdle /\ hasButtons = TRUE /\ hasSelect = TRUE /\ hasJpegContainer = TRUE
  /\ MarkerIdle
  /\ JpegIdle
  /\ jCsv = <<>>
  /\ jFetch = "ok"
  /\ hasTbody = TRUE
  /\ mCsv = [headers |-> <<>>, rows |-> <<>>]
  /\ mFetch = "ok"
  /\ nIn \in NormSeeds
  /\ nExtra = 0
  /\ nDone = FALSE
  /\ nDataset = <<>>
  /\ nStyle = <<>>

\* the caller's string grows by one character at its end
NormAppend ==
  /\ ~nDone
  /\ nExtra < MaxExtra
  /\ \E c \in NormAlphabet : nIn' = Append(nIn, c)
  /\ nExtra' = nExtra + 1
  /\ UNCHANGED <<nDone, nDataset, nStyle>>
  /\ UNCHANGED <<markerVars, jpegVars, copyVars, pageVars>>

\* the caller's string grows by one character at its start
NormPrepend ==
  /\ ~nDone
  /\ nExtra < MaxExtra
  /\ \E c \in NormAlphabet : nIn' = <<c>> \o nIn
  /\ nExtra' = nExtra + 1
  /\ UNCHANGED <<nDone, nDataset, nStyle>>
  /\ UNCHANGED <<markerVars, jpegVars, copyVars, pageVars>>

\* both normalizers are called on the string
NormApply ==
  /\ ~nDone
  /\ nDone' = TRUE
  /\ nDataset' = normalizeDatasetKey(nIn)
  /\ nStyle' = normalizeMarkerStyleKey(nIn)
  /\ UNCHANGED <<nIn, nExtra>>
  /\ UNCHANGED <<markerVars, jpegVars, copyVars, pageVars>>

NormNext == NormAppend \/ NormPrepend \/ NormApply

SpecNorm == NormInit /\ [][NormNext]_vars

(***************************************************************************)
(* Claims about the normalizers (under SpecNorm).                          *)
(***************************************************************************)
\* C5, as stated: normalizeMarkerStyleKey("Color Blue") is "color_blue" and
\* normalizeMarkerStyleKey("unknown style!!") is "unknown_style".
C5_AsStated ==
  nDone =>
    /\ (nIn = S_Color_Blue => nStyle = S_color_blue)
    /\ (nIn = S_unknown_style_bang => nStyle = S_unknown_style)

\* the characters a normalized marker style key is made of: [a-z0-9_.]
IsSlugChar(c) == (IsWord(c) /\ c \notin Range(UpperChars)) \/ c = "."

\* C5, amended: normalizeMarkerStyleKey("Color Blue") is "color_blue" and
\* normalizeMarkerStyleKey("unknown style!!") is "unknown_style_" (the run
\* "!!" becomes one underscore and stays); phrase variants that differ in case
\* and whitespace map to their canonical key, and every result is made of
\* lowercase letters, digits, underscores and dots only.
C5_StyleKeys ==
  nDone =>
    /\ (nIn = S_Color_Blue => nStyle = S_color_blue)
    /\ (nIn = S_unknown_style_bang => nStyle = S_unknown_style_us)
    /\ (CollapseWhitespace(toLowerCase(trim(nIn))) = S_marker_type_colon_square
          => nStyle = S_marker_square)
    /\ (CollapseWhitespace(toLowerCase(trim(nIn))) = S_font_scale_sp => nStyle = S_font_scale)
    /\ \A i \in DOMAIN nStyle : IsSlugChar(nStyle[i])

\* C5's case: the unmatched input "unknown style!!" has been normalized
C5_Witness == nDone /\ nIn = S_unknown_style_bang /\ nStyle = S_unknown_style_us

\* C6: normalizeDatasetKey is idempotent: normalizing its result again gives
\* the same result, for every input.
C6_Idempotent == nDone => normalizeDatasetKey(nDataset) = nDataset

\* C6's case: a padded input with the "DA-2K" prefix has been normalized to
\* something other than itself
C6_Witness ==
  /\ nDone
  /\ nIn # nDataset
  /\ nIn # trim(nIn)
  /\ startsWith(trim(nIn), S_DA_2K)
  /\ Len(trim(nIn)) > Len(S_DA_2K)

(***************************************************************************)
(* loadMarkerData and updateVisualization on bounded CSV tables.           *)
(***************************************************************************)
S_A == <<"A">>
S_B == <<"B">>
S_80 == <<"8","0">>
S_82 == <<"8","2">>
S_1 == <<"1">>
S_2 == <<"2">>
S_x == <<"x">>

StandardHeaders == <<"dataset", "model", "marker_style", "accuracy", "rank">>

\* a row of cells under the standard headers
Cells(dataset, model, style, accuracy, rank) == <<dataset, model, style, accuracy, rank>>

\* the rows a marker CSV table of the model is made of: two models under two
\* styles of DA2k (the first with one of two measurements), a style named
\* "models", and a row of a second dataset
MarkerRowChoices ==
  { Cells(S_DA2k, S_A, st, v[1], v[2]) :
      st \in {S_default, S_Color_Blue}, v \in {<<S_80, S_2>>, <<S_82, S_1>>} }
  \cup { Cells(S_DA2k, S_B, st, S_82, S_1) : st \in {S_default, S_Color_Blue} }
  \cup { Cells(S_DA_2K, S_A, S_models, S_80, S_2),
         Cells(S_spair, S_A, S_default, S_80, S_1) }

\* rows for the tables with other header rows: two good rows, a row whose
\* accuracy is no number, and a row shorter than the header row
EdgeRowChoices ==
  { Cells(S_DA2k, S_A, S_default, S_80, S_1),
    Cells(S_DA2k, S_A, S_Color_Blue, S_82, S_1),
    Cells(S_DA2k, S_A, S_default, S_x, S_1),
    <<S_DA2k, S_A>> }

SeqsUpTo(S, n) == UNION {[1..k -> S] : k \in 0..n}

\* the header rows of the model: the standard one, one whose rank column is
\* missing, and one with the columns in another order and a sixth column
MarkerHeaderChoices ==
  { StandardHeaders,
    <<"dataset", "model", "marker_style", "accuracy">>,
    <<"dataset", "model", "marker_style", "accuracy", "rank", "note">> }

\* the keys updateVisualization is called with
MarkerKeyChoices == {S_default, S_color_blue, S_radius_3, S_models, S_constructor}

\* the values of the dataset selector
DatasetChoices == {S_DA2k, S_SPair}

MarkerInit ==
  /\ CopyIdle /\ cTarget = TRUE /\ cClipboard = TRUE
  /\ PageIdle /\ hasButtons = TRUE /\ hasSelect = TRUE /\ hasJpegContainer = TRUE
  /\ NormIdle
  /\ MarkerIdle
  /\ JpegIdle
  /\ jCsv = <<>>
  /\ jFetch = "ok"
  /\ \/ /\ mFetch = "ok"
        /\ hasTbody = TRUE
        /\ mCsv \in [headers : {StandardHeaders}, rows : SeqsUpTo(MarkerRowChoices, MaxRows)]
     \/ /\ mFetch = "ok"
        /\ hasTbody \in BOOLEAN
        /\ mCsv \in [headers : MarkerHeaderChoices, rows : SeqsUpTo(EdgeRowChoices, 2)]
     \/ /\ mFetch \in {"rejected", "notOk"}
        /\ hasTbody = TRUE
        /\ mCsv = [headers |-> <<>>, rows |-> <<>>]

\* loadMarkerData runs to its end
MkLoad ==
  /\ ~mLoaded
  /\ mLoaded' = TRUE
  /\ LET data == loadMarkerDataResult(mFetch, mCsv) IN
       MARKER_DATA' = IF data.kind = "object" THEN data ELSE MARKER_DATA
  /\ UNCHANGED <<currentDataset, accuracyChart, tableBody, hasTbody, uvOutcome, uvKey,
                 activeMarker, mCsv, mFetch, mCalls>>
  /\ UNCHANGED <<normVars, jpegVars, copyVars, pageVars>>

\* the effect of a call updateVisualization(markerKey) on the state, when
\* MARKER_DATA is markerData and currentDataset is dataset
UpdateEffect(markerData, dataset, markerKey) ==
  LET r == updateVisualization(markerData, dataset, markerKey, hasTbody,
                               accuracyChart, tableBody)
  IN /\ uvOutcome' = r.outcome
     /\ uvKey' = markerKey
     /\ accuracyChart' = r.chart
     /\ tableBody' = r.table

CallUpdateVisualization(dataset, markerKey) == UpdateEffect(MARKER_DATA, dataset, markerKey)

\* a marker button's click handler: the button becomes the active one and
\* updateVisualization is called with its data-marker
MkClickMarker ==
  /\ mLoaded
  /\ mCalls < MaxCalls
  /\ mCalls' = mCalls + 1
  /\ \E markerKey \in MarkerKeyChoices :
       /\ activeMarker' = <<markerKey>>
       /\ CallUpdateVisualization(currentDataset, markerKey)
  /\ UNCHANGED <<MARKER_DATA, currentDataset, hasTbody, mCsv, mFetch, mLoaded>>
  /\ UNCHANGED <<normVars, jpegVars, copyVars, pageVars>>

\* the dataset selector's change handler: currentDataset is set, then
\* updateVisualization is called with the active button's data-marker, or
\* "color_blue" when no button is active
MkChangeDataset ==
  /\ mLoaded
  /\ mCalls < MaxCalls
  /\ mCalls' = mCalls + 1
  /\ \E value \in DatasetChoices :
       /\ currentDataset' = value
       /\ CallUpdateVisualization(value,
            IF activeMarker = <<>> THEN S_color_blue ELSE activeMarker[1])
  /\ UNCHANGED <<MARKER_DATA, hasTbody, activeMarker, mCsv, mFetch, mLoaded>>
  /\ UNCHANGED <<normVars, jpegVars, copyVars, pageVars>>

MarkerNext == MkLoad \/ MkClickMarker \/ MkChangeDataset

SpecMarker == MarkerInit /\ [][MarkerNext]_vars

(***************************************************************************)
(* Claims about loadMarkerData and updateVisualization (under SpecMarker). *)
(***************************************************************************)
\* the accepted rows of the table, read again from the CSV
AcceptedRows == ParsedRows(mCsv)

\* among the accepted rows, those of dataset d under style st for model m,
\* by index
RowsOf(rows, d, st, m) ==
  {i \in DOMAIN rows :
     rows[i].dataset = d /\ rows[i].marker_style = st /\ rows[i].model = m}

\* the marker styles present in dataset d among the accepted rows
StylesOf(rows, d) ==
  {rows[i].marker_style : i \in {j \in DOMAIN rows : rows[j].dataset = d}}

Max(S) == CHOOSE x \in S : \A y \in S : y <= x
Min(S) == CHOOSE x \in S : \A y \in S : x <= y

Loaded == mLoaded /\ MARKER_DATA.kind = "object"

\* C1, as stated: in every dataset of the loaded data, every style entry's
\* accuracies and ranks are as long as the dataset's models, and element i of
\* each is the value of the last accepted row of models[i] under that style.
C1_AsStated ==
  Loaded =>
    LET rows == AcceptedRows IN
    \A d \in DOMAIN MARKER_DATA.props :
      LET ds == MARKER_DATA.props[d].props
          models == ds[S_models]
      IN /\ models.kind = "array"
         /\ \A st \in StylesOf(rows, d) :
              /\ ds[st].kind = "style"
              /\ Len(ds[st].accuracies) = Len(models.items)
              /\ Len(ds[st].ranks) = Len(models.items)
              /\ \A i \in DOMAIN models.items :
                   LET last == rows[Max(RowsOf(rows, d, st, models.items[i]))] IN
                   /\ ds[st].accuracies[i] = last.accuracy.val
                   /\ ds[st].ranks[i] = last.rank.val

\* C2: where a dataset's models is a list, a model is in it only if it has an
\* accepted row under every marker style of the dataset, and when the dataset
\* has the "default" style the list keeps the order in which the models first
\* appear under "default"; in the example (A and B under "default", only A
\* under "color_blue") the list is A alone.
C2_ModelsInEveryStyle ==
  Loaded =>
    LET rows == AcceptedRows IN
    \A d \in DOMAIN MARKER_DATA.props :
      LET models == MARKER_DATA.props[d].props[S_models] IN
      models.kind = "array" =>
        /\ \A i \in DOMAIN models.items :
             \A st \in StylesOf(rows, d) : RowsOf(rows, d, st, models.items[i]) # {}
        /\ S_default \in StylesOf(rows, d) =>
             \A i, j \in DOMAIN models.items :
               i < j => Min(RowsOf(rows, d, S_default, models.items[i]))
                          < Min(RowsOf(rows, d, S_default, models.items[j]))
        /\ ( /\ StylesOf(rows, d) = {S_default, S_color_blue}
             /\ RowsOf(rows, d, S_default, S_A) # {} /\ RowsOf(rows, d, S_default, S_B) # {}
             /\ RowsOf(rows, d, S_color_blue, S_A) # {} /\ RowsOf(rows, d, S_color_blue, S_B) = {} )
           => models.items = <<S_A>>

\* C2's case: B appears before A under "default" and only A has a row under
\* "color_blue", and the models of DA2k are A alone
C2_Witness ==
  LET rows == AcceptedRows IN
  /\ Loaded
  /\ S_DA2k \in DOMAIN MARKER_DATA.props
  /\ StylesOf(rows, S_DA2k) = {S_default, S_color_blue}
  /\ RowsOf(rows, S_DA2k, S_default, S_B) # {}
  /\ RowsOf(rows, S_DA2k, S_default, S_A) # {}
  /\ Min(RowsOf(rows, S_DA2k, S_default, S_B)) < Min(RowsOf(rows, S_DA2k, S_default, S_A))
  /\ RowsOf(rows, S_DA2k, S_color_blue, S_B) = {}
  /\ MARKER_DATA.props[S_DA2k].props[S_models] = [kind |-> "array", items |-> <<S_A>>]

\* the style entry the claims call "selected" for the last call
SelectedEntry(rows, ds) ==
  IF uvKey \in StylesOf(rows, currentDataset) THEN ds[uvKey] ELSE ds[S_default]

\* C7: when updateVisualization has rendered, for every model index i the
\* chart's delta is selected.accuracies[i] - default.accuracies[i], coloured
\* "up" when positive, "down" when negative and "neutral" when zero; the table
\* has one row per model in the order of models, and its rank delta is
\* default.ranks[i] - selected.ranks[i], shown as an improvement when positive.
C7_DeltasAndTable ==
  (Loaded /\ uvOutcome = "rendered") =>
    LET ds == MARKER_DATA.props[currentDataset].props
        models == ds[S_models].items
        def == ds[S_default]
        sel == SelectedEntry(AcceptedRows, ds)
    IN /\ accuracyChart.x = models
       /\ Len(accuracyChart.deltas) = Len(models)
       /\ \A i \in DOMAIN models :
            LET d == sel.accuracies[i] - def.accuracies[i] IN
            /\ accuracyChart.deltas[i] = d
            /\ d > 0 => accuracyChart.colors[i] = "#10b981"
            /\ d < 0 => accuracyChart.colors[i] = "#ef4444"
            /\ d = 0 => accuracyChart.colors[i] = "#6b7280"
       /\ hasTbody =>
            /\ Len(tableBody) = Len(models)
            /\ \A i \in DOMAIN models :
                 LET r == def.ranks[i] - sel.ranks[i] IN
                 /\ tableBody[i].model = models[i]
                 /\ tableBody[i].delta = r
                 /\ tableBody[i].class =
                      (IF r > 0 THEN "deltaUp" ELSE IF r < 0 THEN "deltaDown" ELSE "deltaZero")

\* C7's case: a rendered style other than "default" with a positive accuracy
\* delta and a positive rank delta
C7_Witness ==
  /\ Loaded
  /\ uvOutcome = "rendered"
  /\ uvKey = S_color_blue
  /\ hasTbody
  /\ \E i \in DOMAIN accuracyChart.deltas :
       accuracyChart.deltas[i] > 0 /\ tableBody[i].delta > 0

\* C10, as stated: when the current dataset is loaded with a "default" style
\* and the requested key is not a style of the dataset, the call renders with
\* the default entry as the selected series (every delta zero) and does not
\* throw.
C10_AsStated ==
  LET rows == AcceptedRows IN
  ( /\ Loaded
    /\ uvOutcome # "none"
    /\ currentDataset \in DOMAIN MARKER_DATA.props
    /\ S_default \in StylesOf(rows, currentDataset)
    /\ uvKey \notin StylesOf(rows, currentDataset) )
  => /\ uvOutcome = "rendered"
     /\ accuracyChart.ySelected = accuracyChart.yDefault
     /\ \A i \in DOMAIN accuracyChart.deltas : accuracyChart.deltas[i] = 0

(***************************************************************************)
(* loadJpegRankData and renderJpegRankChart on bounded CSV tables.         *)
(***************************************************************************)
S_M == <<"M">>
S_N == <<"N">>
S_P == <<"P">>
S_3 == <<"3">>
S_5 == <<"5">>
S_jpeg70 == <<"j","p","e","g","7","0">>
S_jpeg90 == <<"j","p","e","g","9","0">>
S_OTHER == <<"O","T","H","E","R">>

\* the rows a JPEG-rank CSV table of the model is made of: two models of MME
\* with a default rank (3, 1 or no number) and compressed ranks (5 or 2 at
\* jpeg70, 2 at jpeg90), a third model whose default rank is no number, a row
\* of BLINK_RD, a row of an unknown benchmark and a row of three cells
JpegRowChoices ==
  { <<S_MME, m, qr[1], qr[2]>> :
      m \in {S_M, S_N},
      qr \in { <<S_default, S_3>>, <<S_default, S_1>>, <<S_default, S_x>>,
               <<S_jpeg70, S_5>>, <<S_jpeg70, S_2>>, <<S_jpeg90, S_2>> } }
  \cup { <<S_MME, S_P, S_default, S_x>>,
         <<S_BLINK_RD, S_M, S_default, S_3>>,
         <<S_OTHER, S_M, S_default, S_3>>,
         <<S_MME, S_M, S_default>> }

JpegInit ==
  /\ CopyIdle /\ cTarget = TRUE /\ cClipboard = TRUE
  /\ PageIdle /\ hasButtons = TRUE /\ hasSelect = TRUE
  /\ NormIdle
  /\ MarkerIdle
  /\ hasTbody = TRUE
  /\ mCsv = [headers |-> <<>>, rows |-> <<>>]
  /\ mFetch = "ok"
  /\ JpegIdle
  /\ \/ /\ jFetch = "ok"
        /\ jCsv \in SeqsUpTo(JpegRowChoices, MaxJpegRows)
        /\ hasJpegContainer = TRUE
     \/ /\ jFetch = "ok"
        /\ jCsv \in SeqsUpTo(JpegRowChoices, 1)
        /\ hasJpegContainer = FALSE
     \/ /\ jFetch \in {"rejected", "notOk"}
        /\ jCsv = <<>>
        /\ hasJpegContainer = TRUE

\* loadJpegRankData runs to its end
JpLoad ==
  /\ jRows.kind = "pending"
  /\ jRows' = loadJpegRankDataResult(jFetch, jCsv)
  /\ UNCHANGED <<jCsv, jFetch, jpegChart>>
  /\ UNCHANGED <<normVars, markerVars, copyVars, pageVars>>

\* the effect of a call renderJpegRankChart(rows): nothing without the
\* container element, else the chart is drawn
CallRenderJpegRankChart(rows) ==
  IF ~hasJpegContainer THEN jpegChart' = jpegChart
  ELSE LET choices == JpegOrderChoices(rows) IN
       \E first \in choices[1], second \in choices[2] :
         jpegChart' = renderJpegRankChart(rows, <<first, second>>)

\* renderJpegRankChart(jpegRows) is called with the loaded rows
JpRender ==
  /\ jRows.kind = "array"
  /\ jpegChart = NoChart
  /\ CallRenderJpegRankChart(jRows.items)
  /\ UNCHANGED <<jCsv, jFetch, jRows>>
  /\ UNCHANGED <<normVars, markerVars, copyVars, pageVars>>

JpegNext == JpLoad \/ JpRender

SpecJpeg == JpegInit /\ [][JpegNext]_vars

(***************************************************************************)
(* Claims about renderJpegRankChart (under SpecJpeg).                      *)
(***************************************************************************)
\* the loaded rows of benchmark b and model m
JpegRowsOf(b, m) ==
  SelectSeq(jRows.items, LAMBDA r : r.benchmark = BENCHMARKS[b] /\ r.model = m)

\* the models of benchmark b that have a finite rank
RangedModels(b) ==
  {r.model : r \in {x \in Range(jRows.items) : x.benchmark = BENCHMARKS[b] /\ x.rank.fin}}

\* the finite ranks of model m in benchmark b
FiniteRanks(b, m) ==
  {r.rank.val : r \in {x \in Range(JpegRowsOf(b, m)) : x.rank.fin}}

\* whether model m of benchmark b has an entry of quality "default"
HasDefaultEntry(b, m) == \E r \in Range(JpegRowsOf(b, m)) : r.jpeg_quality = S_default

\* the rank of the first "default" entry of model m in benchmark b
FirstDefaultRank(b, m) ==
  LET rows == JpegRowsOf(b, m) IN
  rows[Min({i \in DOMAIN rows : rows[i].jpeg_quality = S_default})].rank

\* the traces drawn for benchmark b (none when it has no rows)
TracesOf(b) ==
  {t \in Range(jpegChart.traces) : t.xaxis = (IF b = 1 THEN "x" ELSE "x2")}

\* the places 1..n of the models in a trace's segments
SegmentPlaces(t) == 1..(Len(t.segmentY) \div 3)

\* the segment part of C8: every model of a known benchmark that has a finite
\* rank has one segment, from its minimum to its maximum finite rank, and
\* nothing else is drawn
SegmentsDrawn ==
  /\ \A b \in DOMAIN BENCHMARKS :
       /\ (RangedModels(b) # {}) => Cardinality(TracesOf(b)) = 1
       /\ \A t \in TracesOf(b) :
            /\ Len(t.segmentY) = 3 * Cardinality(RangedModels(b))
            /\ \A m \in RangedModels(b) : \E k \in SegmentPlaces(t) :
                 /\ t.segmentY[3 * k - 2] = m
                 /\ t.segmentX[3 * k - 2] = Num(Min(FiniteRanks(b, m)))
                 /\ t.segmentX[3 * k - 1] = Num(Max(FiniteRanks(b, m)))
  /\ Len(jpegChart.traces) = Cardinality(UNION {TracesOf(b) : b \in DOMAIN BENCHMARKS})

\* the default rank a drawn model is ordered by, a model without a default
\* entry counting as `missing`
OrderKey(b, m, missing) ==
  IF HasDefaultEntry(b, m) THEN FirstDefaultRank(b, m).val ELSE missing

\* C8, as stated: every model of a known benchmark with a finite rank has a
\* segment from its minimum to its maximum rank; a marker is drawn at the
\* model's default rank exactly when the model has a default entry; the models
\* are in ascending order of default rank with the models lacking a default
\* entry last; rows of unknown benchmarks draw nothing.
C8_AsStated ==
  jpegChart.kind = "chart" =>
    /\ SegmentsDrawn
    /\ \A b \in DOMAIN BENCHMARKS : \A t \in TracesOf(b) :
         /\ \A m \in RangedModels(b) :
              /\ (m \in Range(t.dotY)) <=> HasDefaultEntry(b, m)
              /\ \A i \in DOMAIN t.dotY :
                   t.dotY[i] = m => Num(t.dotX[i]) = FirstDefaultRank(b, m)
         /\ \A i, j \in SegmentPlaces(t) :
              i < j =>
                LET a == t.segmentY[3 * i - 2]
                    c == t.segmentY[3 * j - 2]
                IN /\ HasDefaultEntry(b, a) \/ ~HasDefaultEntry(b, c)
                   /\ (HasDefaultEntry(b, a) /\ HasDefaultEntry(b, c))
                        => /\ FirstDefaultRank(b, a).fin /\ FirstDefaultRank(b, c).fin
                           /\ FirstDefaultRank(b, a).val <= FirstDefaultRank(b, c).val

\* C8, amended: every model of a known benchmark with a finite rank has a
\* segment from its minimum to its maximum finite rank; a marker is drawn at
\* the rank of the model's first default entry exactly when the model has a
\* default entry and that rank is finite; when no default rank of the
\* benchmark is NaN the models are in ascending order of default rank, a model
\* without a default entry counting as rank 9999; rows of unknown benchmarks
\* draw nothing.
C8_RangeAndMarker ==
  jpegChart.kind = "chart" =>
    /\ SegmentsDrawn
    /\ \A b \in DOMAIN BENCHMARKS : \A t \in TracesOf(b) :
         /\ \A m \in RangedModels(b) :
              /\ (m \in Range(t.dotY))
                   <=> (HasDefaultEntry(b, m) /\ FirstDefaultRank(b, m).fin)
              /\ \A i \in DOMAIN t.dotY :
                   t.dotY[i] = m => Num(t.dotX[i]) = FirstDefaultRank(b, m)
         /\ (\A r \in Range(jRows.items) :
               (r.benchmark = BENCHMARKS[b] /\ r.jpeg_quality = S_default) => r.rank.fin)
            => \A i, j \in SegmentPlaces(t) :
                 i < j => OrderKey(b, t.segmentY[3 * i - 2], MissingDefaultRank)
                            <= OrderKey(b, t.segmentY[3 * j - 2], MissingDefaultRank)

\* C8's case: the model M of MME has ranks default 3, jpeg70 5 and jpeg90 2,
\* and is drawn with the segment 2..5 and a marker at 3
C8_Witness ==
  /\ jpegChart.kind = "chart"
  /\ Len(jRows.items) = 3
  /\ \E i, j, k \in DOMAIN jRows.items :
       /\ jRows.items[i] = [benchmark |-> S_MME, model |-> S_M,
                            jpeg_quality |-> S_default, rank |-> Num(3)]
       /\ jRows.items[j] = [benchmark |-> S_MME, model |-> S_M,
                            jpeg_quality |-> S_jpeg70, rank |-> Num(5)]
       /\ jRows.items[k] = [benchmark |-> S_MME, model |-> S_M,
                            jpeg_quality |-> S_jpeg90, rank |-> Num(2)]
  /\ \E t \in Range(jpegChart.traces) :
       /\ t.xaxis = "x2"
       /\ t.segmentX = <<Num(2), Num(5), null>>
       /\ t.segmentY = <<S_M, S_M, null>>
       /\ t.dotX = <<3>>
       /\ t.dotY = <<S_M>>

(***************************************************************************)
(* The copy button: the document click handler, setTempButtonLabel and the *)
(* restore timers.                                                         *)
(***************************************************************************)
\* clicks on the copy button
MaxClicks == 3

S_Copied == <<"C","o","p","i","e","d">>
S_Copy_failed == <<"C","o","p","y"," ","f","a","i","l","e","d">>
S_Missing_target == <<"M","i","s","s","i","n","g"," ","t","a","r","g","e","t">>

\* setTempButtonLabel(button, label): the label now shown is kept by a new
\* timer, which restores it when it fires, and the button shows `label`
setTempButtonLabel(label) ==
  /\ cTimers' = Append(cTimers, cLabel)
  /\ cLabel' = label

CopyInit ==
  /\ NormIdle
  /\ MarkerIdle /\ hasTbody = TRUE /\ mCsv = [headers |-> <<>>, rows |-> <<>>] /\ mFetch = "ok"
  /\ JpegIdle /\ jCsv = <<>> /\ jFetch = "ok"
  /\ PageIdle /\ hasButtons = TRUE /\ hasSelect = TRUE /\ hasJpegContainer = TRUE
  /\ CopyIdle
  /\ cTarget \in BOOLEAN
  /\ cClipboard \in BOOLEAN

\* a click on the copy button: "Missing target" when the target element does
\* not exist; else the text is copied, which without the Clipboard API
\* resolves to false at once (the label becomes "Copy failed" before any
\* other task runs) and with it starts a write
CopyClick ==
  /\ cClicks < MaxClicks
  /\ cClicks' = cClicks + 1
  /\ IF ~cTarget THEN setTempButtonLabel(S_Missing_target) /\ UNCHANGED cPending
     ELSE IF ~cClipboard THEN setTempButtonLabel(S_Copy_failed) /\ UNCHANGED cPending
     ELSE cPending' = cPending + 1 /\ UNCHANGED <<cLabel, cTimers>>
  /\ UNCHANGED <<cTarget, cClipboard>>
  /\ UNCHANGED <<normVars, markerVars, jpegVars, pageVars>>

\* a clipboard write settles: the label becomes "Copied" or "Copy failed"
ClipboardSettles ==
  /\ cPending > 0
  /\ cPending' = cPending - 1
  /\ \E ok \in BOOLEAN : setTempButtonLabel(IF ok THEN S_Copied ELSE S_Copy_failed)
  /\ UNCHANGED <<cClicks, cTarget, cClipboard>>
  /\ UNCHANGED <<normVars, markerVars, jpegVars, pageVars>>

\* the oldest restore timer fires (all timers wait 1200 ms, so they fire in
\* the order they were set)
TimerFires ==
  /\ cTimers # <<>>
  /\ cLabel' = Head(cTimers)
  /\ cTimers' = Tail(cTimers)
  /\ UNCHANGED <<cPending, cClicks, cTarget, cClipboard>>
  /\ UNCHANGED <<normVars, markerVars, jpegVars, pageVars>>

CopyNext == CopyClick \/ ClipboardSettles \/ TimerFires

SpecCopy == CopyInit /\ [][CopyNext]_vars

\* C9, as stated: once every pending timer has fired (and no clipboard write is
\* still to settle), the button shows the label it had before the first click.
C9_AsStated == (cTimers = <<>> /\ cPending = 0) => cLabel = InitialLabel

(***************************************************************************)
(* The page: the DOMContentLoaded handler, the two fetches and the user's  *)
(* events.                                                                 *)
(***************************************************************************)
\* the data-marker attributes of the .markerBtn elements, in document order
PageButtons == <<S_color_blue, S_radius_3>>

\* the marker CSV tables of the page model: both styles for one model, no
\* "default" style, a missing column, another dataset only, and no rows
PageMarkerTables ==
  { [headers |-> StandardHeaders,
     rows |-> <<Cells(S_DA2k, S_A, S_default, S_80, S_2),
                Cells(S_DA2k, S_A, S_Color_Blue, S_82, S_1)>>],
    [headers |-> StandardHeaders,
     rows |-> <<Cells(S_DA2k, S_A, S_Color_Blue, S_82, S_1)>>],
    [headers |-> <<"dataset", "model", "marker_style", "accuracy">>,
     rows |-> <<Cells(S_DA2k, S_A, S_default, S_80, S_2)>>],
    [headers |-> StandardHeaders,
     rows |-> <<Cells(S_spair, S_A, S_default, S_80, S_1)>>],
    [headers |-> StandardHeaders, rows |-> <<>>] }

\* the JPEG-rank CSV tables of the page model: one model with three ranks,
\* and no rows
PageJpegTables ==
  { << <<S_MME, S_M, S_default, S_3>>, <<S_MME, S_M, S_jpeg70, S_5>>,
       <<S_MME, S_M, S_jpeg90, S_2>> >>,
    <<>> }

PageInit ==
  /\ NormIdle
  /\ CopyIdle /\ cTarget = TRUE /\ cClipboard = TRUE
  /\ MarkerIdle
  /\ JpegIdle
  /\ PageIdle
  /\ hasTbody = TRUE
  /\ hasButtons \in BOOLEAN
  /\ hasSelect \in BOOLEAN
  /\ hasJpegContainer \in BOOLEAN
  /\ \/ mFetch = "ok" /\ mCsv \in PageMarkerTables
     \/ mFetch \in {"rejected", "notOk"} /\ mCsv = [headers |-> <<>>, rows |-> <<>>]
  /\ \/ jFetch = "ok" /\ jCsv \in PageJpegTables
     \/ jFetch \in {"rejected", "notOk"} /\ jCsv = <<>>

\* DOMContentLoaded: loadJpegRankData() and loadMarkerData() each run to their
\* fetch, and the handler waits for loadMarkerData
PageLoad ==
  /\ pagePc = "start"
  /\ pagePc' = "awaitMarker"
  /\ jNet' = "pending"
  /\ mNet' = "pending"
  /\ UNCHANGED <<handlersRegistered, hasButtons, hasSelect, hasJpegContainer>>
  /\ UNCHANGED <<normVars, markerVars, jpegVars, copyVars>>

\* the handler from `await jpegRowsPromise` on, when the promise has settled
\* to rowsValue: a rejection leaves the handler, null draws nothing, rows are
\* drawn
JpegSection(rowsValue) ==
  IF rowsValue.kind = "rejected" THEN pagePc' = "failed" /\ jpegChart' = jpegChart
  ELSE IF rowsValue.kind = "null" THEN pagePc' = "done" /\ jpegChart' = jpegChart
  ELSE pagePc' = "done" /\ CallRenderJpegRankChart(rowsValue.items)

\* the handler from `await jpegRowsPromise` on, when loadJpegRankData may
\* still be waiting for its fetch
AwaitJpeg ==
  IF jNet = "settled" THEN JpegSection(jRows)
  ELSE pagePc' = "awaitJpeg" /\ jpegChart' = jpegChart

\* the fetch of marker_acc.csv settles: loadMarkerData runs to its end and the
\* handler goes on: with data and buttons it calls updateVisualization with the
\* first button's marker (an exception it throws leaves the handler) and adds
\* the listeners; then it waits for the JPEG rows
PageMarkerSettles ==
  /\ mNet = "pending"
  /\ mNet' = "settled"
  /\ mLoaded' = TRUE
  /\ LET data == loadMarkerDataResult(mFetch, mCsv)
         markerData == IF data.kind = "object" THEN data ELSE MARKER_DATA
     IN /\ MARKER_DATA' = markerData
        /\ IF Truthy(markerData) /\ hasButtons
             THEN /\ UpdateEffect(markerData, currentDataset, PageButtons[1])
                  /\ IF uvOutcome' = "threw"
                       THEN /\ pagePc' = "failed"
                            /\ UNCHANGED <<handlersRegistered, jpegChart>>
                       ELSE /\ handlersRegistered' = TRUE
                            /\ AwaitJpeg
             ELSE /\ UNCHANGED <<uvOutcome, uvKey, accuracyChart, tableBody, handlersRegistered>>
                  /\ AwaitJpeg
  /\ UNCHANGED <<currentDataset, hasTbody, activeMarker, mCsv, mFetch, mCalls>>
  /\ UNCHANGED <<jCsv, jFetch, jRows, jNet, hasButtons, hasSelect, hasJpegContainer>>
  /\ UNCHANGED <<normVars, copyVars>>

\* the fetch of jpeg_rank.csv settles: loadJpegRankData runs to its end, and
\* the handler goes on if it is waiting for the rows
PageJpegSettles ==
  /\ jNet = "pending"
  /\ jNet' = "settled"
  /\ jRows' = loadJpegRankDataResult(jFetch, jCsv)
  /\ IF pagePc = "awaitJpeg" THEN JpegSection(jRows')
     ELSE UNCHANGED <<pagePc, jpegChart>>
  /\ UNCHANGED <<jCsv, jFetch, mNet, handlersRegistered, hasButtons, hasSelect,
                 hasJpegContainer>>
  /\ UNCHANGED <<normVars, markerVars, copyVars>>

\* a faulty variant, to show the property can fail: the click listener also
\* selects the dataset "SPair"
PageClickMarker_SetsDataset ==
  /\ handlersRegistered
  /\ mCalls < MaxCalls
  /\ mCalls' = mCalls + 1
  /\ currentDataset' = S_SPair
  /\ \E b \in DOMAIN PageButtons :
       /\ activeMarker' = <<PageButtons[b]>>
       /\ CallUpdateVisualization(S_SPair, PageButtons[b])
  /\ UNCHANGED <<MARKER_DATA, hasTbody, mCsv, mFetch, mLoaded>>
  /\ UNCHANGED <<normVars, jpegVars, copyVars, pageVars>>

\* a click on a marker button, once the listeners are added
PageClickMarker ==
  /\ handlersRegistered
  /\ mCalls < MaxCalls
  /\ mCalls' = mCalls + 1
  /\ \E b \in DOMAIN PageButtons :
       /\ activeMarker' = <<PageButtons[b]>>
       /\ CallUpdateVisualization(currentDataset, PageButtons[b])
  /\ UNCHANGED <<MARKER_DATA, currentDataset, hasTbody, mCsv, mFetch, mLoaded>>
  /\ UNCHANGED <<normVars, jpegVars, copyVars, pageVars>>

\* a change of the dataset selector, once the listeners are added
PageChangeDataset ==
  /\ handlersRegistered
  /\ hasSelect
  /\ mCalls < MaxCalls
  /\ mCalls' = mCalls + 1
  /\ \E value \in DatasetChoices :
       /\ currentDataset' = value
       /\ CallUpdateVisualization(value,
            IF activeMarker = <<>> THEN S_color_blue ELSE activeMarker[1])
  /\ UNCHANGED <<MARKER_DATA, hasTbody, activeMarker, mCsv, mFetch, mLoaded>>
  /\ UNCHANGED <<normVars, jpegVars, copyVars, pageVars>>

PageNext ==
  PageLoad \/ PageMarkerSettles \/ PageJpegSettles \/ PageClickMarker \/ PageChangeDataset

SpecPage == PageInit /\ [][PageNext]_vars

(***************************************************************************)
(* Claims about the page-load handler.                                     *)
(***************************************************************************)
\* the marker pipeline has ended in one of its failures: the fetch was
\* rejected or not OK, a required column is missing (no data is stored), or
\* the selected dataset is loaded without a "default" style
MarkerFailure ==
  /\ mNet = "settled"
  /\ \/ MARKER_DATA.kind # "object"
     \/ /\ currentDataset \in DOMAIN MARKER_DATA.props
        /\ S_default \notin StylesOf(AcceptedRows, currentDataset)

\* the marker pipeline has loaded the selected dataset with a "default" style
MarkerLoaded ==
  /\ mNet = "settled"
  /\ MARKER_DATA.kind = "object"
  /\ currentDataset \in DOMAIN MARKER_DATA.props
  /\ S_default \in StylesOf(AcceptedRows, currentDataset)

\* the JPEG-rank pipeline has ended in one of its failures
JpegFailure == jNet = "settled" /\ jRows.kind \in {"rejected", "null"}

\* the JPEG-rank pipeline has loaded its rows
JpegLoaded == jNet = "settled" /\ jRows.kind = "array"

\* C3, as stated: no exception leaves the page-load handler; when the marker
\* pipeline has failed and the JPEG rows are loaded, the JPEG-rank chart is
\* drawn; when the JPEG-rank pipeline has failed and the marker data are loaded,
\* the marker visualization is drawn and its listeners are added.
C3_AsStated ==
  /\ pagePc # "failed"
  /\ (MarkerFailure /\ JpegLoaded /\ hasJpegContainer) => jpegChart.kind = "chart"
  /\ (JpegFailure /\ MarkerLoaded /\ hasButtons)
       => (uvOutcome = "rendered" /\ handlersRegistered)

\* C4, as stated: the two fetches are issued together, and while the handler
\* has not been left by an exception, the JPEG-rank chart is drawn once the JPEG
\* rows are loaded, and the marker visualization is drawn once the marker data
\* are loaded, whether or not the other fetch is still pending.
C4_AsStated ==
  /\ (mNet = "idle") <=> (jNet = "idle")
  /\ (pagePc # "failed" /\ JpegLoaded /\ hasJpegContainer) => jpegChart.kind = "chart"
  /\ (pagePc # "failed" /\ MarkerLoaded /\ hasButtons) => uvOutcome = "rendered"

(***************************************************************************)
(* Claims about the render state MARKER_DATA and currentDataset.           *)
(***************************************************************************)
\* C11: every step changes MARKER_DATA only from null to the loaded object,
\* when the page-load fetch of marker_acc.csv settles with success (so at most
\* once); changes currentDataset only as a step of the dataset selector's
\* change listener; and every step that calls updateVisualization (the
\* page-load step, a marker click, a dataset change) leaves MARKER_DATA as
\* loadMarkerData left it and currentDataset as the listener set it.
C11_RenderStateFrame ==
  [][ /\ (MARKER_DATA' # MARKER_DATA)
         => /\ MARKER_DATA = null
            /\ mNet = "pending" /\ mNet' = "settled" /\ mFetch = "ok"
            /\ MARKER_DATA' = loadMarkerDataResult(mFetch, mCsv)
            /\ MARKER_DATA'.kind = "object"
      /\ (currentDataset' # currentDataset) => PageChangeDataset
      /\ PageClickMarker => UNCHANGED <<MARKER_DATA, currentDataset>>
      /\ PageChangeDataset
         => (MARKER_DATA' = MARKER_DATA /\ currentDataset' \in DatasetChoices)
      /\ PageMarkerSettles
         => /\ currentDataset' = currentDataset
            /\ MARKER_DATA' \in {MARKER_DATA, loadMarkerDataResult(mFetch, mCsv)}
    ]_vars

\* C11's case: the marker data were loaded at page load, the dataset selector
\* has changed currentDataset to "SPair", and updateVisualization has drawn it
C11_Witness ==
  /\ mNet = "settled"
  /\ MARKER_DATA.kind = "object"
  /\ currentDataset = S_SPair
  /\ mCalls > 0
  /\ uvOutcome = "rendered"

====
